---- MODULE Spec2Model ----
(***************************************************************************)
(* Model of app.py: a directory of items and a forum of threads, kept in   *)
(* two JSON documents that every script run reads whole and that every     *)
(* mutation writes back whole, through a GitHub backend (writes            *)
(* conditioned on the blob sha that was read) or a local-file backend.     *)
(* Strings are sequences of one-character strings.                         *)
(***************************************************************************)
EXTENDS Integers, Sequences, FiniteSets, TLC

(* ------------------------------ bounds --------------------------------- *)

\* number of uuid4 values handed out in a behaviour
MaxIds == 5
\* largest value the clock read by ts() reaches
MaxClock == 1
\* upvotes an item collects at most
MaxUpvotes == 2
\* links an item collects at most
MaxLinks == 1
\* posts a thread collects at most
MaxPosts == 2
\* items the directory collects at most
MaxItems == 1
\* threads the forum collects at most
MaxThreads == 2
\* characters of a search text
MaxQueryLen == 2
\* characters of a stored title
MaxTitleLen == 2

(* ------------------------------ inputs --------------------------------- *)

Sessions == {"s1", "s2"}

TitleInputs == {<<>>, <<" ">>, <<"a">>}
CodeInputs == {<<>>, <<"f">>}
WorkInputs == {<<>>, <<"s">>}
TagsRawInputs == {<<>>, <<"t", ",", " ">>}
UrlInputs == {<<>>, <<"u">>}
NoteInputs == {<<>>}
TextInputs == {<<>>, <<" ">>, <<"o">>}

(* ------------------------------ strings -------------------------------- *)

RECURSIVE lstrip(_)
lstrip(s) ==
    IF s # <<>> /\ Head(s) = " " THEN lstrip(Tail(s)) ELSE s

RECURSIVE rstrip(_)
rstrip(s) ==
    IF s # <<>> /\ s[Len(s)] = " " THEN rstrip(SubSeq(s, 1, Len(s) - 1)) ELSE s

\* str.strip()
strip(s) == rstrip(lstrip(s))

\* str.split(","): the pieces between the commas, in order
RECURSIVE split(_, _)
split(s, cur) ==
    IF s = <<>> THEN <<cur>>
    ELSE IF Head(s) = "," THEN <<cur>> \o split(Tail(s), <<>>)
    ELSE split(Tail(s), Append(cur, Head(s)))

RECURSIVE strip_nonempty(_)
strip_nonempty(parts) ==
    IF parts = <<>> THEN <<>>
    ELSE IF strip(Head(parts)) # <<>>
         THEN <<strip(Head(parts))>> \o strip_nonempty(Tail(parts))
         ELSE strip_nonempty(Tail(parts))

\* [t.strip() for t in (raw.split(",") if raw else []) if t.strip()]
parse_tags(raw) ==
    strip_nonempty(IF raw # <<>> THEN split(raw, <<>>) ELSE <<>>)

(* ------------------------------ storage -------------------------------- *)

\* a stored document: missing, unparseable, or a JSON list
Absent == [kind |-> "absent", data |-> <<>>]
Corrupt == [kind |-> "corrupt", data |-> <<>>]
Doc(d) == [kind |-> "doc", data |-> d]

\* the revision token of a read that found nothing
None == <<>>

\* file.sha: the blob sha of the content, a function of the content alone
file_sha(file) == IF file.kind = "doc" THEN <<file.data>> ELSE None

\* items_default / threads_default
default == <<>>

\* _gh_read_json: the content and its sha, or (default, None) on any exception
gh_read_json(file) ==
    {[data |-> default, sha |-> None, file |-> file]}
    \cup (IF file.kind = "doc"
          THEN {[data |-> file.data, sha |-> file_sha(file), file |-> file]}
          ELSE {})

\* _local_read_json: creates a missing file holding the default; the sha is None
local_read_json(file) ==
    IF file.kind = "absent"
    THEN {[data |-> default, sha |-> None, file |-> Doc(default)]}
    ELSE IF file.kind = "doc"
    THEN {[data |-> file.data, sha |-> None, file |-> file]}
    ELSE {[data |-> default, sha |-> None, file |-> file]}

\* a write that never looks at the sha
gh_write_json_unconditional(file, data, sha) ==
    {[ok |-> FALSE, e |-> "io", file |-> file],
     [ok |-> TRUE, e |-> "", file |-> Doc(data)]}

\* _gh_write_json: update_file needs the sha of the stored blob, create_file
\* needs the file to be missing; any exception e is reported and is a False
\* with nothing stored
gh_write_json(file, data, sha) ==
    {[ok |-> FALSE, e |-> "io", file |-> file]}
    \cup (IF sha # None
          THEN (IF file.kind = "doc" /\ file_sha(file) = sha
                THEN {[ok |-> TRUE, e |-> "", file |-> Doc(data)]}
                ELSE {[ok |-> FALSE, e |-> "conflict", file |-> file]})
          ELSE (IF file.kind = "absent"
                THEN {[ok |-> TRUE, e |-> "", file |-> Doc(data)]}
                ELSE {[ok |-> FALSE, e |-> "conflict", file |-> file]}))

\* a write that opens the file for appending
local_write_json_append(file, data) ==
    {[ok |-> TRUE, e |-> "", file |-> IF file.kind = "absent" THEN Doc(data) ELSE Corrupt],
     [ok |-> FALSE, e |-> "io", file |-> file]}

\* _local_write_json: open(path, "w") truncates, json.dump fills; an exception
\* before the open leaves the file, one after it leaves a truncated file
local_write_json(file, data) ==
    {[ok |-> TRUE, e |-> "", file |-> Doc(data)],
     [ok |-> FALSE, e |-> "io", file |-> file],
     [ok |-> FALSE, e |-> "io", file |-> Corrupt]}

read_store(github, file) ==
    IF github THEN gh_read_json(file) ELSE local_read_json(file)

write_store(github, file, data, sha) ==
    IF github THEN gh_write_json(file, data, sha) ELSE local_write_json(file, data)

(* ------------------------------ state ---------------------------------- *)

VARIABLES
    GITHUB_ENABLED,  \* the backend, fixed at start
    items_file,      \* data/items.json in the store
    threads_file,    \* data/threads.json in the store
    pc,              \* per session: "idle", or "run" between load and handler
    items,           \* per session: the items of the script run
    items_sha,       \* per session: the sha read with them
    threads,         \* per session: the threads of the script run
    threads_sha,     \* per session: the sha read with them
    msg,             \* per session: what the last run reported: "none", "invalid",
                     \* "success", or the exception of a failed write
    wrote,           \* per session: the paths the last run gave to write_store
    clock,           \* datetime.utcnow()
    nextId,          \* uuid4 values handed out so far
    df               \* the directory the last search left on the page: the
                     \* filters typed and the rows shown for them

vars == <<GITHUB_ENABLED, items_file, threads_file, pc, items, items_sha,
          threads, threads_sha, msg, wrote, clock, nextId, df>>

ITEMS_PATH == "data/items.json"
THREADS_PATH == "data/threads.json"

\* get_current_user: no session types a name, each keeps the default_user
current_user(s) == "anon@exxata.com.br"

\* ts(): a read of the clock, which may have advanced since the last read
ts(t) == {u \in t..(t + 1) : u <= MaxClock}

Init ==
    /\ GITHUB_ENABLED \in BOOLEAN
    /\ items_file = Absent
    /\ threads_file = Absent
    /\ pc = [s \in Sessions |-> "idle"]
    /\ items = [s \in Sessions |-> <<>>]
    /\ items_sha = [s \in Sessions |-> None]
    /\ threads = [s \in Sessions |-> <<>>]
    /\ threads_sha = [s \in Sessions |-> None]
    /\ msg = [s \in Sessions |-> "none"]
    /\ wrote = [s \in Sessions |-> <<>>]
    /\ clock = 0
    /\ nextId = 0
    /\ df = [q |-> <<>>, code |-> <<>>, work_type |-> <<>>,
             shown |-> [error |-> FALSE, rows |-> <<>>]]

\* a script run starts: read_store of both documents
Load(s) ==
    /\ pc[s] = "idle"
    /\ \E ri \in read_store(GITHUB_ENABLED, items_file),
          rt \in read_store(GITHUB_ENABLED, threads_file) :
        /\ items' = [items EXCEPT ![s] = ri.data]
        /\ items_sha' = [items_sha EXCEPT ![s] = ri.sha]
        /\ items_file' = ri.file
        /\ threads' = [threads EXCEPT ![s] = rt.data]
        /\ threads_sha' = [threads_sha EXCEPT ![s] = rt.sha]
        /\ threads_file' = rt.file
    /\ pc' = [pc EXCEPT ![s] = "run"]
    /\ msg' = [msg EXCEPT ![s] = "none"]
    /\ wrote' = [wrote EXCEPT ![s] = <<>>]
    /\ UNCHANGED <<GITHUB_ENABLED, clock, nextId, df>>

\* the script run ends: its variables are gone, its report stays on the page
Finish(s, report, paths) ==
    /\ msg' = [msg EXCEPT ![s] = report]
    /\ wrote' = [wrote EXCEPT ![s] = paths]
    /\ pc' = [pc EXCEPT ![s] = "idle"]
    /\ items' = [items EXCEPT ![s] = <<>>]
    /\ items_sha' = [items_sha EXCEPT ![s] = None]
    /\ threads' = [threads EXCEPT ![s] = <<>>]
    /\ threads_sha' = [threads_sha EXCEPT ![s] = None]
    /\ UNCHANGED GITHUB_ENABLED

\* a script run in which no button was pressed
Render(s) ==
    /\ pc[s] = "run"
    /\ Finish(s, "none", <<>>)
    /\ UNCHANGED <<items_file, threads_file, clock, nextId, df>>

\* a handler that refuses its input: st.error / st.warning and no write_store
Reject(s) ==
    /\ Finish(s, "invalid", <<>>)
    /\ UNCHANGED <<items_file, threads_file, clock, nextId, df>>

\* ok = write_store(ITEMS_PATH, items, items_sha, ...); if ok: st.success.
\* n uuid4 values are in data; those of a failed write are never seen again,
\* so nextId counts the stored ones alone
WriteItems(s, data, n) ==
    /\ \E r \in write_store(GITHUB_ENABLED, items_file, data, items_sha[s]) :
        /\ items_file' = r.file
        /\ nextId' = IF r.ok THEN nextId + n ELSE nextId
        /\ Finish(s, IF r.ok THEN "success" ELSE r.e, <<ITEMS_PATH>>)
    /\ UNCHANGED <<threads_file, df>>

\* ok = write_store(THREADS_PATH, threads, threads_sha, ...); if ok: st.success
WriteThreads(s, data, n) ==
    /\ \E r \in write_store(GITHUB_ENABLED, threads_file, data, threads_sha[s]) :
        /\ threads_file' = r.file
        /\ nextId' = IF r.ok THEN nextId + n ELSE nextId
        /\ Finish(s, IF r.ok THEN "success" ELSE r.e, <<THREADS_PATH>>)
    /\ UNCHANGED <<items_file, df>>

\* the index of the first element with this id: for it in items: if it["id"] == id
first_with_id(seq, id) ==
    CHOOSE i \in 1..Len(seq) :
        /\ seq[i].id = id
        /\ \A j \in 1..(i - 1) : seq[j].id # id

\* an increment that adds nothing
upvoted_stuck(n) == n

\* it["upvotes"] = int(it.get("upvotes", 0)) + 1
upvoted(n) == n + 1

\* the upvote button of the row showing items[i]; t is what ts() reads
Upvote(s, i, t) ==
    /\ pc[s] = "run"
    /\ i \in 1..Len(items[s])
    /\ items[s][i].upvotes < MaxUpvotes
    /\ t \in ts(clock)
    /\ LET k == first_with_id(items[s], items[s][i].id)
           it == items[s][k]
       IN  WriteItems(s, [items[s] EXCEPT ![k] =
                [it EXCEPT !.upvotes = upvoted(it.upvotes), !.updated_at = t]], 0)
    /\ clock' = t

\* a check of the title alone
item_fields_missing_title_only(title, project_code, work_type) ==
    title = <<>>

\* if not title or not project_code or not work_type: st.error
item_fields_missing(title, project_code, work_type) ==
    title = <<>> \/ project_code = <<>> \/ work_type = <<>>

\* the link dictionary of the two add-link places
new_link(s, url, note, t) ==
    [url |-> strip(url), by |-> current_user(s), at |-> t,
     note |-> IF note # <<>> THEN strip(note) ELSE <<>>]

\* the "Criar item" form; t1, t2, t3 are what the three ts() calls read
CreateItem(s, title, project_code, work_type, tags_raw, first_link, note, t1, t2, t3) ==
    /\ pc[s] = "run"
    /\ IF item_fields_missing(title, project_code, work_type)
       THEN Reject(s)
       ELSE /\ nextId < MaxIds
            /\ Len(items[s]) < MaxItems
            /\ t1 \in ts(clock) /\ t2 \in ts(t1)
            /\ t3 \in (IF first_link # <<>> THEN ts(t2) ELSE {t2})
            /\ LET new_item ==
                        [id |-> nextId + 1,
                         title |-> strip(title),
                         project_code |-> strip(project_code),
                         work_type |-> strip(work_type),
                         links |-> IF first_link # <<>>
                                   THEN <<new_link(s, first_link, note, t3)>>
                                   ELSE <<>>,
                         tags |-> parse_tags(tags_raw),
                         created_by |-> current_user(s),
                         created_at |-> t1,
                         updated_at |-> t2,
                         upvotes |-> 0]
               IN  WriteItems(s, Append(items[s], new_item), 1)
            /\ clock' = t3

\* the "Salvar link" button of the row showing items[i]
AddLink(s, i, new_url, note, t1, t2) ==
    /\ pc[s] = "run"
    /\ i \in 1..Len(items[s])
    /\ IF new_url # <<>>
       THEN /\ Len(items[s][i].links) < MaxLinks
            /\ t1 \in ts(clock) /\ t2 \in ts(t1)
            /\ LET k == first_with_id(items[s], items[s][i].id)
                   it == items[s][k]
               IN  WriteItems(s, [items[s] EXCEPT ![k] =
                        [it EXCEPT !.links = Append(it.links, new_link(s, new_url, note, t1)),
                                   !.updated_at = t2]], 0)
            /\ clock' = t2
       ELSE Reject(s)

\* if not t_title or not t_first: st.warning
thread_fields_missing(t_title, t_first) ==
    t_title = <<>> \/ t_first = <<>>

\* a new thread put behind the others
insert_last(seq, thread) == Append(seq, thread)

\* threads.insert(0, thread)
insert_first(seq, thread) == <<thread>> \o seq

\* the "Publicar discussão" button; t1, t2 are what the two ts() calls read
CreateThread(s, t_title, t_tags, t_first, t1, t2) ==
    /\ pc[s] = "run"
    /\ IF thread_fields_missing(t_title, t_first)
       THEN Reject(s)
       ELSE /\ nextId + 2 <= MaxIds
            /\ Len(threads[s]) < MaxThreads
            /\ t1 \in ts(clock) /\ t2 \in ts(t1)
            /\ LET thread ==
                        [id |-> nextId + 1,
                         title |-> strip(t_title),
                         created_by |-> current_user(s),
                         created_at |-> t1,
                         tags |-> parse_tags(t_tags),
                         posts |-> <<[id |-> nextId + 2, by |-> current_user(s),
                                      at |-> t2, text |-> strip(t_first)]>>]
               IN  WriteThreads(s, insert_first(threads[s], thread), 2)
            /\ clock' = t2

\* a post put before the others
add_post_first(posts, post) == <<post>> \o posts

\* th.setdefault("posts", []).append(post)
add_post(posts, post) == Append(posts, post)

\* the "Enviar resposta" button of the thread showing threads[i]
Reply(s, i, reply, t) ==
    /\ pc[s] = "run"
    /\ i \in 1..Len(threads[s])
    /\ Len(threads[s][i].posts) < MaxPosts
    /\ nextId < MaxIds
    /\ t \in ts(clock)
    /\ LET k == first_with_id(threads[s], threads[s][i].id)
           th == threads[s][k]
           post == [id |-> nextId + 1, by |-> current_user(s), at |-> t,
                    text |-> strip(reply)]
       IN  WriteThreads(s, [threads[s] EXCEPT ![k] =
                [th EXCEPT !.posts = add_post(th.posts, post)]], 1)
    /\ clock' = t

(* ------------------------------ directory ------------------------------ *)

\* str.lower() of one character
lower_char(c) == IF c = "A" THEN "a" ELSE IF c = "B" THEN "b" ELSE c

\* str.lower()
lower(str) == [i \in 1..Len(str) |-> lower_char(str[i])]

\* q in str: q is a substring of str
is_in(q, str) ==
    \E i \in 0..(Len(str) - Len(q)) : SubSeq(str, i + 1, i + Len(q)) = q

\* re.compile(pat) raises on a "*" with nothing before it to repeat
re_valid(pat) ==
    \A i \in 1..Len(pat) : pat[i] = "*" => (i > 1 /\ pat[i - 1] # "*")

\* re: pat matches a prefix of str; "." is any character, "x*" any number of x
RECURSIVE re_match_here(_, _)
re_match_here(pat, str) ==
    IF pat = <<>> THEN TRUE
    ELSE IF Len(pat) >= 2 /\ pat[2] = "*"
    THEN \E n \in 0..Len(str) :
            /\ \A j \in 1..n : pat[1] = "." \/ pat[1] = str[j]
            /\ re_match_here(SubSeq(pat, 3, Len(pat)), SubSeq(str, n + 1, Len(str)))
    ELSE /\ str # <<>>
         /\ (pat[1] = "." \/ pat[1] = str[1])
         /\ re_match_here(Tail(pat), Tail(str))

\* re.search(pat, str)
re_search(pat, str) ==
    \E i \in 1..(Len(str) + 1) : re_match_here(pat, SubSeq(str, i, Len(str)))

\* a containment test that takes the pattern literally
str_contains_literal(pat, str) == is_in(pat, str)

\* Series.str.contains(pat): regex=True is the default, so pat is a regular expression
str_contains(pat, str) == re_search(pat, str)

\* the mask of one row for the free text q_lower
mask_q(it, q_lower) ==
    \/ str_contains(q_lower, lower(it.title))
    \/ str_contains(q_lower, lower(it.project_code))
    \/ str_contains(q_lower, lower(it.work_type))
    \/ \E n \in 1..Len(it.tags) : is_in(q_lower, lower(it.tags[n]))

\* the mask of one row: free text, project code and work type, combined with &
mask(it, q, code, work_type) ==
    /\ q # <<>> => mask_q(it, lower(q))
    /\ code # <<>> => str_contains(lower(code), lower(it.project_code))
    /\ work_type # <<>> => str_contains(lower(work_type), lower(it.work_type))

\* df = df[mask] when the frame is not empty; the rows are kept in the order of
\* items, sort_values then orders them without adding or dropping a row
filter_rows(rows, q, code, work_type) ==
    IF rows = <<>> THEN [error |-> FALSE, rows |-> <<>>]
    ELSE IF \/ q # <<>> /\ ~re_valid(lower(q))
            \/ code # <<>> /\ ~re_valid(lower(code))
            \/ work_type # <<>> /\ ~re_valid(lower(work_type))
    THEN [error |-> TRUE, rows |-> <<>>]
    ELSE LET keep(it) == mask(it, q, code, work_type)
         IN  [error |-> FALSE, rows |-> SelectSeq(rows, keep)]

\* a script run that shows the directory for the typed filters
Search(s, q, code, work_type) ==
    /\ pc[s] = "run"
    /\ df' = [q |-> q, code |-> code, work_type |-> work_type,
              shown |-> filter_rows(items[s], q, code, work_type)]
    /\ Finish(s, IF df'.shown.error THEN "exception" ELSE "none", <<>>)
    /\ UNCHANGED <<items_file, threads_file, clock, nextId>>

(* ----------------------------- specifications -------------------------- *)

\* Two sessions on either backend issue every mutation with well-formed
\* input, while the clock stands still.
Next ==
    \/ \E s \in Sessions : Load(s)
    \/ \E s \in Sessions : Render(s)
    \/ \E s \in Sessions : \E i \in 1..MaxItems : Upvote(s, i, clock)
    \/ \E s \in Sessions :
            CreateItem(s, <<"a">>, <<"f">>, <<"s">>, <<>>, <<>>, <<>>, clock, clock, clock)
    \/ \E s \in Sessions : \E i \in 1..MaxItems :
            AddLink(s, i, <<"u">>, <<>>, clock, clock)
    \/ \E s \in Sessions : CreateThread(s, <<"d">>, <<>>, <<"p">>, clock, clock)
    \/ \E s \in Sessions : \E i \in 1..MaxThreads : Reply(s, i, <<"o">>, clock)

Spec == Init /\ [][Next]_vars

\* Two sessions on either backend work on the directory alone.
NextItems ==
    \/ \E s \in Sessions : Load(s)
    \/ \E s \in Sessions : \E i \in 1..MaxItems : Upvote(s, i, clock)
    \/ \E s \in Sessions :
            CreateItem(s, <<"a">>, <<"f">>, <<"s">>, <<>>, <<>>, <<>>, clock, clock, clock)
    \/ \E s \in Sessions : \E i \in 1..MaxItems :
            AddLink(s, i, <<"u">>, <<>>, clock, clock)

SpecItems == Init /\ [][NextItems]_vars

\* Two sessions on either backend work on the forum alone; the texts they
\* send may be empty or blank.
NextForum ==
    \/ \E s \in Sessions : Load(s)
    \/ \E s \in Sessions : \E t_first \in TextInputs :
            CreateThread(s, <<"d">>, <<>>, t_first, clock, clock)
    \/ \E s \in Sessions : \E i \in 1..MaxThreads : \E reply \in TextInputs :
            Reply(s, i, reply, clock)

SpecForum == Init /\ [][NextForum]_vars

\* One session fills the forms with any of the inputs, valid or not, while
\* the clock runs.
NextForms ==
    \/ Load("s1")
    \/ \E title \in TitleInputs, project_code \in CodeInputs, work_type \in WorkInputs,
          tags_raw \in TagsRawInputs, first_link \in UrlInputs, note \in NoteInputs :
            \E t1 \in ts(clock) : \E t2 \in ts(t1) : \E t3 \in ts(t2) :
                CreateItem("s1", title, project_code, work_type, tags_raw, first_link,
                           note, t1, t2, t3)
    \/ \E i \in 1..MaxItems : \E new_url \in UrlInputs, note \in NoteInputs :
            AddLink("s1", i, new_url, note, clock, clock)
    \/ \E t_title \in TitleInputs, t_first \in TextInputs :
            CreateThread("s1", t_title, <<>>, t_first, clock, clock)

SpecForms == Init /\ [][NextForms]_vars

\* The directory is searched over stored collections of every shape.
FilterChars == {"a", "B", ".", "*"}
Strings(n) == UNION {[1..k -> FilterChars] : k \in 0..n}

Queries == Strings(MaxQueryLen)

stored_item(id, title, project_code, work_type, tags) ==
    [id |-> id, title |-> title, project_code |-> project_code,
     work_type |-> work_type, links |-> <<>>, tags |-> tags,
     created_by |-> current_user("s1"), created_at |-> 0, updated_at |-> 0,
     upvotes |-> 0]

FilterDocs ==
    {<<stored_item(1, title, <<"B", "a">>, <<"a">>, tags)>> \o rest :
        title \in Strings(MaxTitleLen),
        tags \in {<<>>, << <<".">>, <<"B">> >>},
        rest \in {<<>>, <<stored_item(2, <<"a", "B">>, <<"a">>, <<"B">>, <<>>)>>}}

InitFilter ==
    /\ GITHUB_ENABLED \in BOOLEAN
    /\ items_file \in {Doc(d) : d \in FilterDocs}
    /\ threads_file = Absent
    /\ pc = [s \in Sessions |-> "idle"]
    /\ items = [s \in Sessions |-> <<>>]
    /\ items_sha = [s \in Sessions |-> None]
    /\ threads = [s \in Sessions |-> <<>>]
    /\ threads_sha = [s \in Sessions |-> None]
    /\ msg = [s \in Sessions |-> "none"]
    /\ wrote = [s \in Sessions |-> <<>>]
    /\ clock = 0
    /\ nextId = 2
    /\ df = [q |-> <<>>, code |-> <<>>, work_type |-> <<>>,
             shown |-> [error |-> FALSE, rows |-> <<>>]]

NextFilter ==
    \/ Load("s1")
    \/ \E q \in Queries, code \in {<<>>, <<"B">>}, work_type \in {<<>>, <<"a">>} :
            Search("s1", q, code, work_type)

SpecFilter == InitFilter /\ [][NextFilter]_vars

(* -------------------------------- claims ------------------------------- *)

\* the handler of session s ran in this step
Ran(s) == pc[s] = "run" /\ pc'[s] = "idle"

\* the reports of a write_store that returned False
WriteFailed == {"io", "conflict"}

is_prefix(a, b) == Len(a) <= Len(b) /\ SubSeq(b, 1, Len(a)) = a

\* every item of old is in new at its place, with no vote and no link taken away
ItemsKept(old, new) ==
    /\ Len(new) >= Len(old)
    /\ \A k \in 1..Len(old) :
        /\ new[k].id = old[k].id
        /\ new[k].upvotes >= old[k].upvotes
        /\ is_prefix(old[k].links, new[k].links)

\* every thread of old is in new, in the same order behind the new ones, with
\* no post taken away
ThreadsKept(old, new) ==
    /\ Len(new) >= Len(old)
    /\ \A k \in 1..Len(old) :
        LET n == k + Len(new) - Len(old)
        IN  /\ new[n].id = old[k].id
            /\ is_prefix(old[k].posts, new[n].posts)

\* C1: on the GitHub backend a write whose sha is not the sha of the stored
\* document fails and stores nothing; once a session's write succeeded, every
\* other session that read the same revision holds a sha that is no longer
\* the stored one, and no step takes a stored item, vote, link, thread or
\* post away: of two writers of one revision at most one succeeds and its
\* change stays.
C1_RemoteWriteIsConditioned ==
    [][GITHUB_ENABLED =>
        /\ ItemsKept(items_file.data, items_file'.data)
        /\ ThreadsKept(threads_file.data, threads_file'.data)
        /\ \A s \in Sessions : Ran(s) =>
            /\ (wrote'[s] = <<ITEMS_PATH>> /\ items_sha[s] # file_sha(items_file))
                    => (msg'[s] \in WriteFailed /\ items_file' = items_file)
            /\ (wrote'[s] = <<THREADS_PATH>> /\ threads_sha[s] # file_sha(threads_file))
                    => (msg'[s] \in WriteFailed /\ threads_file' = threads_file)
            /\ msg'[s] = "success" =>
                    \A t \in Sessions \ {s} : pc[t] = "run" =>
                        /\ (wrote'[s] = <<ITEMS_PATH>> /\ items_sha[t] = items_sha[s])
                                => items_sha[t] # file_sha(items_file')
                        /\ (wrote'[s] = <<THREADS_PATH>> /\ threads_sha[t] = threads_sha[s])
                                => threads_sha[t] # file_sha(threads_file')]_vars

\* one session's write went through and the other's was refused as a conflict
C1_Witness ==
    /\ GITHUB_ENABLED
    /\ \E s \in Sessions : \E t \in Sessions \ {s} :
        /\ msg[s] = "success"
        /\ msg[t] = "conflict"
        /\ wrote[s] = wrote[t]

\* C2: a mutation whose write returns False leaves both stored documents as
\* they were, reports no success and has called write_store once, so the next
\* read starts from the last document that was stored.
C2_FailedWriteLeavesStore ==
    [][\A s \in Sessions : (Ran(s) /\ msg'[s] \in WriteFailed) =>
        /\ items_file' = items_file
        /\ threads_file' = threads_file
        /\ Len(wrote'[s]) = 1]_vars

\* the handler refused its input: nothing stored, no write_store, a report
Refused(s) ==
    /\ items_file' = items_file
    /\ threads_file' = threads_file
    /\ wrote'[s] = <<>>
    /\ msg'[s] = "invalid"

\* C3: create item with an empty title, project code or work type, add link
\* with an empty URL, and create thread with an empty title or first message
\* report the input as invalid, call write_store not once and leave both
\* stored documents as they were: a step that is not such a refusal is no
\* step of one of these handlers on such an input.
C3_InvalidInputWritesNothing ==
    [][\A s \in Sessions : (Ran(s) /\ ~Refused(s)) =>
        /\ \A title \in TitleInputs, project_code \in CodeInputs, work_type \in WorkInputs,
              tags_raw \in TagsRawInputs, first_link \in UrlInputs, note \in NoteInputs :
                (title = <<>> \/ project_code = <<>> \/ work_type = <<>>)
                    => ~CreateItem(s, title, project_code, work_type, tags_raw,
                                   first_link, note, clock, clock, clock)
        /\ \A i \in 1..MaxItems : \A note \in NoteInputs :
                ~AddLink(s, i, <<>>, note, clock, clock)
        /\ \A t_title \in TitleInputs, t_first \in TextInputs :
                (t_title = <<>> \/ t_first = <<>>)
                    => ~CreateThread(s, t_title, <<>>, t_first, clock, clock)]_vars

\* an input was refused while an item and a thread were stored
C3_Witness ==
    /\ msg["s1"] = "invalid"
    /\ items_file.kind = "doc" /\ Len(items_file.data) = 1
    /\ threads_file.kind = "doc" /\ Len(threads_file.data) >= 1

\* the upvotes stored for the item with this id; -1 when it is not stored
stored_upvotes(file, id) ==
    IF \E k \in 1..Len(file.data) : file.data[k].id = id
    THEN file.data[first_with_id(file.data, id)].upvotes
    ELSE -1

\* no step lowers the stored upvotes of an item
UpvotesNeverDecrease ==
    \A k \in 1..Len(items_file.data) :
        \A n \in 1..Len(items_file'.data) :
            items_file'.data[n].id = items_file.data[k].id
                => items_file'.data[n].upvotes >= items_file.data[k].upvotes

\* a successful upvote of a stored item stores one vote more than was stored
UpvoteAddsOneToStored ==
    \A s \in Sessions : \A i \in 1..MaxItems :
        (/\ Upvote(s, i, clock) /\ msg'[s] = "success"
         /\ stored_upvotes(items_file, items[s][i].id) >= 0)
            => stored_upvotes(items_file', items[s][i].id)
                    = stored_upvotes(items_file, items[s][i].id) + 1

\* C4 as stated: on either backend each successful upvote adds exactly one to
\* the stored upvotes of the item and the stored upvotes never decrease.
C4_UpvotesCountOnEitherBackend ==
    [][UpvotesNeverDecrease /\ UpvoteAddsOneToStored]_vars

\* C4 as amended: on the GitHub backend each successful upvote adds exactly
\* one to the stored upvotes and the stored upvotes never decrease; on either
\* backend a successful upvote stores the upvotes the session read plus one.
C4_UpvotesCountOnRemote ==
    [][/\ GITHUB_ENABLED => (UpvotesNeverDecrease /\ UpvoteAddsOneToStored)
       /\ \A s \in Sessions : \A i \in 1..MaxItems :
            (Upvote(s, i, clock) /\ msg'[s] = "success")
                => stored_upvotes(items_file', items[s][i].id) = items[s][i].upvotes + 1]_vars

\* two upvotes of one item are stored on the GitHub backend
C4_Witness ==
    /\ GITHUB_ENABLED
    /\ \E s \in Sessions : msg[s] = "success"
    /\ stored_upvotes(items_file, 1) = 2

\* new is snap after one mutation: an item appended, or one vote or one link
\* added to an item
OneMutation(snap, new) ==
    /\ Len(new) \in {Len(snap), Len(snap) + 1}
    /\ \A k \in 1..Len(snap) :
        /\ new[k].id = snap[k].id
        /\ new[k].upvotes \in {snap[k].upvotes, snap[k].upvotes + 1}
        /\ is_prefix(snap[k].links, new[k].links)
        /\ Len(new[k].links) <= Len(snap[k].links) + 1

\* C5: on the local backend no write is refused for its revision token, and a
\* write that succeeds leaves the file holding the writer's own collection
\* (what it read, with its one mutation), whatever the file held before.
C5_LocalWriteReplaces ==
    [][\A s \in Sessions : (~GITHUB_ENABLED /\ Ran(s)) =>
        /\ msg'[s] # "conflict"
        /\ (msg'[s] = "success" /\ wrote'[s] = <<ITEMS_PATH>>) =>
            /\ items_file'.kind = "doc"
            /\ OneMutation(items[s], items_file'.data)
            /\ items_file'.data # items[s]]_vars

\* both sessions were told their item was created, and only the second
\* writer's item is stored
C5_Witness ==
    /\ ~GITHUB_ENABLED
    /\ msg["s1"] = "success" /\ msg["s2"] = "success"
    /\ nextId = 2
    /\ items_file.kind = "doc" /\ Len(items_file.data) = 1
    /\ items_file.data[1].id = 2

\* C6: the item a successful create item stores has updated_at equal to
\* created_at and no upvotes.
C6_CreatedAtEqualsUpdatedAt ==
    [][\A s \in Sessions :
        (/\ Ran(s) /\ msg'[s] = "success" /\ wrote'[s] = <<ITEMS_PATH>>
         /\ Len(items_file'.data) = Len(items[s]) + 1)
            => LET it == items_file'.data[Len(items_file'.data)]
               IN  it.updated_at = it.created_at /\ it.upvotes = 0]_vars

\* C7: every post of every stored thread has a text that is not empty after
\* trimming.
C7_PostsHaveText ==
    \A k \in 1..Len(threads_file.data) :
        \A n \in 1..Len(threads_file.data[k].posts) :
            strip(threads_file.data[k].posts[n].text) # <<>>

\* new is old with one post appended to the thread at k and nothing else changed
ReplyEffect(old, new, k) ==
    /\ Len(new) = Len(old)
    /\ \A n \in 1..Len(old) : n # k => new[n] = old[n]
    /\ [new[k] EXCEPT !.posts = old[k].posts] = old[k]
    /\ Len(new[k].posts) = Len(old[k].posts) + 1
    /\ is_prefix(old[k].posts, new[k].posts)

\* a successful reply with a text, made while a document is stored, seen
\* against the collection base(s)
ReplyAppends(base(_)) ==
    \A s \in Sessions : \A i \in 1..MaxThreads : \A reply \in TextInputs :
        (/\ strip(reply) # <<>> /\ threads_file.kind = "doc"
         /\ Reply(s, i, reply, clock) /\ msg'[s] = "success")
            => /\ threads_file'.kind = "doc"
               /\ \E k \in 1..Len(base(s)) :
                    /\ base(s)[k].id = threads[s][i].id
                    /\ ReplyEffect(base(s), threads_file'.data, k)

\* C8 as stated: a successful reply with a text leaves the stored document
\* equal to the document stored before it, with one post appended to the
\* thread and nothing else changed.
C8_ReplyAppendsToStored ==
    [][LET stored(s) == threads_file.data IN ReplyAppends(stored)]_vars

\* C8 as amended: a successful reply with a text leaves the stored document
\* equal to the collection the session read, with one post appended to the
\* thread and nothing else changed; on the GitHub backend that collection is
\* the document stored before it.
C8_ReplyAppendsToRead ==
    [][LET read(s) == threads[s]
           stored(s) == threads_file.data
       IN  /\ ReplyAppends(read)
           /\ GITHUB_ENABLED => ReplyAppends(stored)]_vars

\* two threads are stored and a reply was appended to one of them
C8_Witness ==
    /\ \E s \in Sessions : msg[s] = "success" /\ wrote[s] = <<THREADS_PATH>>
    /\ threads_file.kind = "doc" /\ Len(threads_file.data) = 2
    /\ \E k \in 1..2 :
        /\ Len(threads_file.data[k].posts) = 2
        /\ threads_file.data[k].posts[2].text # <<>>

\* new is old behind one new thread that has one post
CreateThreadEffect(old, new) ==
    /\ Len(new) = Len(old) + 1
    /\ Len(new[1].posts) = 1
    /\ SubSeq(new, 2, Len(new)) = old

\* a successful create thread with a title and a first message, made while
\* the document is stored or missing, seen against the collection base(s)
CreateThreadPrepends(base(_)) ==
    \A s \in Sessions : \A t_first \in TextInputs :
        (/\ t_first # <<>> /\ threads_file.kind # "corrupt"
         /\ CreateThread(s, <<"d">>, <<>>, t_first, clock, clock)
         /\ msg'[s] = "success")
            => /\ threads_file'.kind = "doc"
               /\ CreateThreadEffect(base(s), threads_file'.data)

\* C9 as stated: a successful create thread leaves the stored collection one
\* longer than the one stored before it, the new thread first with one post,
\* the threads stored before unchanged behind it.
C9_CreateThreadPrependsToStored ==
    [][LET stored(s) == threads_file.data IN CreateThreadPrepends(stored)]_vars

\* C9 as amended: a successful create thread leaves the stored collection
\* equal to the collection the session read behind the new thread, which has
\* one post; on the GitHub backend that collection is the one stored before.
C9_CreateThreadPrependsToRead ==
    [][LET read(s) == threads[s]
           stored(s) == threads_file.data
       IN  /\ CreateThreadPrepends(read)
           /\ GITHUB_ENABLED => CreateThreadPrepends(stored)]_vars

\* a second thread was stored in front of the first
C9_Witness ==
    /\ \E s \in Sessions : msg[s] = "success" /\ wrote[s] = <<THREADS_PATH>>
    /\ threads_file.kind = "doc" /\ Len(threads_file.data) = 2
    /\ threads_file.data[1].id > threads_file.data[2].id
    /\ Len(threads_file.data[1].posts) = 1

\* Q is a substring, whatever the case, of the title, the project code, the
\* work type or a tag
matches_text(it, Q) ==
    \/ is_in(lower(Q), lower(it.title))
    \/ is_in(lower(Q), lower(it.project_code))
    \/ is_in(lower(Q), lower(it.work_type))
    \/ \E n \in 1..Len(it.tags) : is_in(lower(Q), lower(it.tags[n]))

\* C10: a search for the free text Q shows exactly the items that have Q as a
\* case-insensitive substring of title, project code, work type or a tag;
\* it stores nothing, and searching the rows shown for Q again shows them all.
C10_SearchIsSubstringMatch ==
    [][\A s \in Sessions : \A Q \in Queries :
        Search(s, Q, <<>>, <<>>) =>
            LET hit(it) == matches_text(it, Q)
            IN  /\ ~df'.shown.error
                /\ df'.shown.rows = SelectSeq(items[s], hit)
                /\ filter_rows(df'.shown.rows, Q, <<>>, <<>>) = df'.shown
                /\ items_file' = items_file]_vars

====
